---- MODULE Spec2Model ----
EXTENDS Integers, Sequences, FiniteSets, TLC

\* ---------------------------------------------------------------------------
\* RuntimeExt (runtime/runtime/src/ext.rs): the adapter between the contract
\* sandbox and the transactional trie view, the code cache and the epoch
\* provider.  Byte strings are sequences of naturals.
\* ---------------------------------------------------------------------------

VARIABLES
    trie_update,              \* [exec -> TrieUpdate] the view each adapter borrows
    account_id,               \* [exec -> AccountId]
    action_hash,              \* [exec -> CryptoHash]
    data_count,               \* [exec -> u64]
    epoch_id,                 \* [exec -> EpochId]
    prev_block_hash,          \* [exec -> CryptoHash]
    last_block_hash,          \* [exec -> CryptoHash]
    epoch_info_provider,      \* [exec -> provider]
    current_protocol_version, \* [exec -> ProtocolVersion]
    CODE,                     \* the process-wide contract code cache
    generated,                \* [exec -> Seq(CryptoHash)] ids returned by this adapter
    ret                       \* the last call: who, what, arguments, result

vars == <<trie_update, account_id, action_hash, data_count, epoch_id,
          prev_block_hash, last_block_hash, epoch_info_provider,
          current_protocol_version, CODE, generated, ret>>

\* ----------------------------- bounds and inputs ---------------------------

MaxDataCount == 2

Alice == <<97>>
Alice2 == <<97, 97>>
Accounts == {Alice, Alice2}

Keys == {<<44>>, <<97>>, <<97, 97>>}
Prefixes == {<<>>, <<44>>, <<97>>, <<97, 97>>}
V1 == <<7>>
V2 == <<8, 8>>
Values == {V1, V2}

KeysSmall == {<<97>>}
PrefixesSmall == {<<97>>}
ValuesSmall == {V1}

TrieCacheModes == {"CachingShard", "CachingChunk"}
TouchedCounts == {0, 3}

Hashes == {"h1", "h2"}
Epochs == {"e1", "e2"}

\* ----------------------------- results and options -------------------------

Ok(v) == [tag |-> "Ok", val |-> v]
Err(e) == [tag |-> "Err", val |-> e]
None == <<>>
Some(x) == <<x>>
Unit == <<>>

IsOk(r) == r.tag = "Ok"
IsErr(r) == r.tag = "Err"

\* ----------------------------- byte strings --------------------------------

StartsWith(s, p) == Len(p) <= Len(s) /\ SubSeq(s, 1, Len(p)) = p

RECURSIVE LexLess(_, _)
LexLess(a, b) ==
    IF b = <<>> THEN FALSE
    ELSE IF a = <<>> THEN TRUE
    ELSE IF Head(a) # Head(b) THEN Head(a) < Head(b)
    ELSE LexLess(Tail(a), Tail(b))

MinKey(S) == CHOOSE k \in S : \A o \in S \ {k} : LexLess(k, o)

RECURSIVE SortedKeys(_)
SortedKeys(S) ==
    IF S = {} THEN <<>>
    ELSE LET m == MinKey(S) IN <<m>> \o SortedKeys(S \ {m})

\* ----------------------------- trie keys -----------------------------------

COL_CONTRACT_CODE == 1
COL_CONTRACT_DATA == 9
ACCOUNT_DATA_SEPARATOR == 44

ContractData(acc, key) == [col |-> "ContractData", account_id |-> acc, key |-> key]
ContractCodeKey(acc) == [col |-> "ContractCode", account_id |-> acc, key |-> <<>>]

to_vec(trie_key) ==
    IF trie_key.col = "ContractData"
    THEN <<COL_CONTRACT_DATA>> \o trie_key.account_id
             \o <<ACCOUNT_DATA_SEPARATOR>> \o trie_key.key
    ELSE <<COL_CONTRACT_CODE>> \o trie_key.account_id

get_raw_prefix_for_contract_data(acc, prefix) ==
    <<COL_CONTRACT_DATA>> \o acc \o <<ACCOUNT_DATA_SEPARATOR>> \o prefix

parse_data_key_from_contract_data_key(raw_key, acc) ==
    LET prefix_len == 1 + Len(acc) + 1
    IN  IF Len(raw_key) < prefix_len
        THEN Err("raw key is too short for TrieKey::ContractData")
        ELSE Ok(SubSeq(raw_key, prefix_len + 1, Len(raw_key)))

\* ----------------------------- errors --------------------------------------

StorageInconsistentState(msg) == [error |-> "StorageInconsistentState", msg |-> msg]
EpochOutOfBounds(ep) == [error |-> "EpochOutOfBounds", msg |-> ep]

ExternalStorageError(e) == [variant |-> "StorageError", error |-> e]
ExternalValidatorError(e) == [variant |-> "ValidatorError", error |-> e]

VMLogicErrorFrom(external_error) == [kind |-> "ExternalError", any |-> external_error]

wrap_storage_error_inconsistent(error) ==
    [kind |-> "InconsistentStateError", any |-> ExternalStorageError(error)]

wrap_storage_error(error) == VMLogicErrorFrom(ExternalStorageError(error))

map_err(r, f(_)) == IF IsErr(r) THEN Err(f(r.val)) ELSE r

\* ----------------------------- the trie ------------------------------------
\* trie = [data: raw key -> value, fault: what is unreadable in node storage]

NoFault == [kind |-> "none", key |-> <<>>]
RootFault == [kind |-> "root", key |-> <<>>]
NodeFault(k) == [kind |-> "node", key |-> k]
ValueFault(k) == [kind |-> "value", key |-> k]

MemoryRef(value) ==
    [kind |-> "MemoryRef", length |-> Len(value), value |-> value, hash |-> <<>>]
HashAndSize(length, hash) ==
    [kind |-> "HashAndSize", length |-> length, value |-> <<>>, hash |-> hash]

TrieGetRef(trie, key) ==
    IF trie.fault.kind = "root" \/ (trie.fault.kind = "node" /\ trie.fault.key = key)
    THEN Err(StorageInconsistentState("Trie node missing"))
    ELSE IF key \in DOMAIN trie.data
         THEN Ok(Some(HashAndSize(Len(trie.data[key]), key)))
         ELSE Ok(None)

retrieve_raw_bytes(trie, hash) ==
    IF trie.fault.kind = "root" \/ (trie.fault.kind = "value" /\ trie.fault.key = hash)
    THEN Err(StorageInconsistentState("Trie value missing"))
    ELSE Ok(trie.data[hash])

\* ----------------------------- TrieUpdate ----------------------------------
\* TrieUpdate = [trie, committed, prospective]; the two overlays map a raw key
\* to Some(value) or None (deleted).

OptMap(opt, f(_)) == IF opt = None THEN None ELSE Some(f(opt[1]))

TU_get_ref(tu, key) ==
    IF key \in DOMAIN tu.prospective
    THEN Ok(OptMap(tu.prospective[key], MemoryRef))
    ELSE IF key \in DOMAIN tu.committed
         THEN Ok(OptMap(tu.committed[key], MemoryRef))
         ELSE TrieGetRef(tu.trie, key)

deref_value(tu, ptr) ==
    IF ptr.kind = "MemoryRef" THEN Ok(ptr.value)
    ELSE retrieve_raw_bytes(tu.trie, ptr.hash)

TU_get(tu, key) ==
    LET r == TU_get_ref(tu, key)
    IN  IF IsErr(r) THEN r
        ELSE IF r.val = None THEN Ok(None)
        ELSE LET d == deref_value(tu, r.val[1])
             IN  IF IsErr(d) THEN d ELSE Ok(Some(d.val))

Put(map, key, v) == [k \in DOMAIN map \cup {key} |-> IF k = key THEN v ELSE map[k]]

TU_set(tu, key, value) == [tu EXCEPT !.prospective = Put(@, key, Some(value))]

TU_remove(tu, key) == [tu EXCEPT !.prospective = Put(@, key, None)]

\* TrieUpdate::set_trie_cache_mode: a hint to the trie's node cache
TU_set_trie_cache_mode(tu, state) == [tu EXCEPT !.cache_mode = state]

Overlay(tu) ==
    [k \in DOMAIN tu.committed \cup DOMAIN tu.prospective |->
        IF k \in DOMAIN tu.prospective THEN tu.prospective[k] ELSE tu.committed[k]]

TrieItemFails(trie, key) ==
    /\ key \in DOMAIN trie.data
    /\ trie.fault.kind \in {"node", "value"}
    /\ trie.fault.key = key

RECURSIVE IterItems(_, _, _)
IterItems(tu, ov, keys) ==
    IF keys = <<>> THEN <<>>
    ELSE LET k == Head(keys)
         IN  IF TrieItemFails(tu.trie, k)
             THEN <<Err(StorageInconsistentState("Trie node missing"))>>
             ELSE IF k \in DOMAIN ov /\ ov[k] = None
                  THEN IterItems(tu, ov, Tail(keys))
                  ELSE <<Ok(k)>> \o IterItems(tu, ov, Tail(keys))

TU_iter(tu, key_prefix) ==
    IF tu.trie.fault.kind = "root"
    THEN Err(StorageInconsistentState("Trie node missing"))
    ELSE LET ov == Overlay(tu)
             inRange == {k \in DOMAIN tu.trie.data \cup DOMAIN ov : StartsWith(k, key_prefix)}
         IN  Ok(IterItems(tu, ov, SortedKeys(inRange)))


\* ----------------------------- collaborators -------------------------------

CREATE_HASH_PROTOCOL_VERSION == 38

\* near_primitives::utils::create_data_id; hashing is kept symbolic (injective)
create_data_id(protocol_version, action, prev_block, last_block, data_index) ==
    IF protocol_version >= CREATE_HASH_PROTOCOL_VERSION
    THEN <<"hash", action, last_block, data_index>>
    ELSE <<"hash", action, "", data_index>>

ContractCode(code, hash) == [code |-> code, hash |-> hash]

\* near_store::get_code
store_get_code(tu, acc, code_hash) ==
    LET r == TU_get(tu, to_vec(ContractCodeKey(acc)))
    IN  IF IsErr(r) THEN r
        ELSE Ok(OptMap(r.val, LAMBDA code : ContractCode(code, code_hash)))

\* crate::cache::get_code: [cache, res, computed]
cache_get_code(cache, code_hash, f) ==
    IF code_hash \in DOMAIN cache
    THEN [cache |-> cache, res |-> Ok(Some(cache[code_hash])), computed |-> FALSE]
    ELSE IF IsErr(f) THEN [cache |-> cache, res |-> f, computed |-> TRUE]
    ELSE IF f.val = None THEN [cache |-> cache, res |-> Ok(None), computed |-> TRUE]
    ELSE [cache |-> Put(cache, code_hash, f.val[1]), res |-> f, computed |-> TRUE]

\* EpochInfoProvider: provider = [epoch, block, stake: account -> balance]
provider_validator_stake(provider, ep, last_block, acc) ==
    IF ep # provider.epoch \/ last_block # provider.block
    THEN Err(EpochOutOfBounds(ep))
    ELSE IF acc \in DOMAIN provider.stake THEN Ok(Some(provider.stake[acc]))
    ELSE Ok(None)

RECURSIVE SumStake(_, _)
SumStake(stake, accs) ==
    IF accs = {} THEN 0
    ELSE LET a == CHOOSE x \in accs : TRUE
         IN  stake[a] + SumStake(stake, accs \ {a})

provider_validator_total_stake(provider, ep, last_block) ==
    IF ep # provider.epoch \/ last_block # provider.block
    THEN Err(EpochOutOfBounds(ep))
    ELSE Ok(SumStake(provider.stake, DOMAIN provider.stake))

\* ----------------------------- RuntimeExt ----------------------------------

Call(fn, arg) == [fn |-> fn, arg |-> arg]

create_storage_key_shared(self, key) == ContractData(Alice, key)

create_storage_key(self, key) == ContractData(self.account_id, key)

\* RuntimeExt as seen through &self by the adapter of execution e
Self(e) ==
    [trie_update |-> trie_update[e], account_id |-> account_id[e],
     action_hash |-> action_hash[e], data_count |-> data_count[e],
     epoch_id |-> epoch_id[e], prev_block_hash |-> prev_block_hash[e],
     last_block_hash |-> last_block_hash[e],
     epoch_info_provider |-> epoch_info_provider[e],
     current_protocol_version |-> current_protocol_version[e]]

RuntimeExtValuePtr(ptr) == [inner |-> ptr]

ValuePtr_len(handle) == handle.inner.length

ValuePtr_deref(self, handle) ==
    map_err(deref_value(self.trie_update, handle.inner), wrap_storage_error)

\* every operation yields [tu, res, calls]: the view afterwards, the value
\* returned to the sandbox and the collaborator calls it made

storage_set_keep(self, key, value) ==
    LET storage_key == to_vec(create_storage_key(self, key))
    IN  [tu |-> IF storage_key \in DOMAIN self.trie_update.prospective
                THEN self.trie_update
                ELSE TU_set(self.trie_update, storage_key, value),
         res |-> Ok(Unit),
         calls |-> <<Call("set", storage_key)>>]

storage_set_write_through(self, key, value) ==
    LET storage_key == to_vec(create_storage_key(self, key))
    IN  [tu |-> [TU_set(self.trie_update, storage_key, value)
                    EXCEPT !.trie.data = Put(@, storage_key, value)],
         res |-> Ok(Unit),
         calls |-> <<Call("set", storage_key)>>]

storage_set(self, key, value) ==
    LET storage_key == to_vec(create_storage_key(self, key))
    IN  [tu |-> TU_set(self.trie_update, storage_key, value),
         res |-> Ok(Unit),
         calls |-> <<Call("set", storage_key)>>]

storage_get(self, key) ==
    LET storage_key == to_vec(create_storage_key(self, key))
        r == map_err(TU_get_ref(self.trie_update, storage_key), wrap_storage_error)
    IN  [tu |-> self.trie_update,
         res |-> IF IsErr(r) THEN r ELSE Ok(OptMap(r.val, RuntimeExtValuePtr)),
         calls |-> <<Call("get_ref", storage_key)>>]

storage_remove_committed_only(self, key) ==
    LET storage_key == to_vec(create_storage_key(self, key))
    IN  [tu |-> IF storage_key \in DOMAIN self.trie_update.prospective
                THEN [self.trie_update EXCEPT !.prospective =
                        [k \in DOMAIN @ \ {storage_key} |-> @[k]]]
                ELSE TU_remove(self.trie_update, storage_key),
         res |-> Ok(Unit),
         calls |-> <<Call("remove", storage_key)>>]

storage_remove_checked(self, key) ==
    LET storage_key == to_vec(create_storage_key(self, key))
        r == map_err(TU_get_ref(self.trie_update, storage_key), wrap_storage_error)
    IN  IF IsErr(r)
        THEN [tu |-> self.trie_update, res |-> r,
              calls |-> <<Call("get_ref", storage_key)>>]
        ELSE [tu |-> TU_remove(self.trie_update, storage_key),
              res |-> Ok(Unit),
              calls |-> <<Call("get_ref", storage_key), Call("remove", storage_key)>>]

storage_remove(self, key) ==
    LET storage_key == to_vec(create_storage_key(self, key))
    IN  [tu |-> TU_remove(self.trie_update, storage_key),
         res |-> Ok(Unit),
         calls |-> <<Call("remove", storage_key)>>]

storage_has_key_trie(self, key) ==
    LET storage_key == to_vec(create_storage_key(self, key))
        r == TrieGetRef(self.trie_update.trie, storage_key)
    IN  [tu |-> self.trie_update,
         res |-> map_err(IF IsErr(r) THEN r ELSE Ok(r.val # None), wrap_storage_error),
         calls |-> <<Call("get_ref", storage_key)>>]

storage_has_key(self, key) ==
    LET storage_key == to_vec(create_storage_key(self, key))
        r == TU_get_ref(self.trie_update, storage_key)
    IN  [tu |-> self.trie_update,
         res |-> map_err(IF IsErr(r) THEN r ELSE Ok(r.val # None), wrap_storage_error),
         calls |-> <<Call("get_ref", storage_key)>>]

\* the closure of storage_remove_subtree: raw item -> Result<Vec<u8>, StorageError>
ParseItem(raw_key, acc) ==
    IF IsErr(raw_key) THEN raw_key
    ELSE map_err(parse_data_key_from_contract_data_key(raw_key.val, acc),
                 LAMBDA x : StorageInconsistentState(
                     "Can't parse data key from raw key for ContractData"))

\* collect::<Result<Vec<_>, _>>(): the first error, or all the values
RECURSIVE Collect(_)
Collect(items) ==
    IF items = <<>> THEN Ok(<<>>)
    ELSE IF IsErr(Head(items)) THEN Head(items)
    ELSE LET rest == Collect(Tail(items))
         IN  IF IsErr(rest) THEN rest ELSE Ok(<<Head(items).val>> \o rest.val)

RECURSIVE RemoveAll(_, _, _)
RemoveAll(tu, acc, data_keys) ==
    IF data_keys = <<>> THEN tu
    ELSE RemoveAll(TU_remove(tu, to_vec(ContractData(acc, Head(data_keys)))),
                   acc, Tail(data_keys))

RemoveCalls(acc, data_keys) ==
    [i \in 1..Len(data_keys) |-> Call("remove", to_vec(ContractData(acc, data_keys[i])))]

\* the keys yielded before the first error
RECURSIVE OkPrefix(_)
OkPrefix(items) ==
    IF items = <<>> \/ IsErr(Head(items)) THEN <<>>
    ELSE <<Head(items).val>> \o OkPrefix(Tail(items))

storage_remove_subtree_whole(self, prefix) ==
    LET acc == self.account_id
        raw_prefix == get_raw_prefix_for_contract_data(acc, <<>>)
        opened == map_err(TU_iter(self.trie_update, raw_prefix), wrap_storage_error)
    IN  IF IsErr(opened)
        THEN [tu |-> self.trie_update, res |-> opened, calls |-> <<Call("iter", raw_prefix)>>]
        ELSE LET parsed == [i \in 1..Len(opened.val) |-> ParseItem(opened.val[i], acc)]
                 data_keys == map_err(Collect(parsed), wrap_storage_error)
             IN  IF IsErr(data_keys)
                 THEN [tu |-> self.trie_update, res |-> data_keys,
                       calls |-> <<Call("iter", raw_prefix)>>]
                 ELSE [tu |-> RemoveAll(self.trie_update, acc, data_keys.val),
                       res |-> Ok(Unit),
                       calls |-> <<Call("iter", raw_prefix)>>
                                   \o RemoveCalls(acc, data_keys.val)]

RECURSIVE RemoveAllRaw(_, _)
RemoveAllRaw(tu, raw_keys) ==
    IF raw_keys = <<>> THEN tu
    ELSE RemoveAllRaw(TU_remove(tu, Head(raw_keys)), Tail(raw_keys))

storage_remove_subtree_unseparated(self, prefix) ==
    LET acc == self.account_id
        raw_prefix == <<COL_CONTRACT_DATA>> \o acc \o prefix
        opened == map_err(TU_iter(self.trie_update, raw_prefix), wrap_storage_error)
    IN  IF IsErr(opened)
        THEN [tu |-> self.trie_update, res |-> opened, calls |-> <<Call("iter", raw_prefix)>>]
        ELSE LET raw_keys == map_err(Collect(opened.val), wrap_storage_error)
             IN  IF IsErr(raw_keys)
                 THEN [tu |-> self.trie_update, res |-> raw_keys,
                       calls |-> <<Call("iter", raw_prefix)>>]
                 ELSE [tu |-> RemoveAllRaw(self.trie_update, raw_keys.val),
                       res |-> Ok(Unit),
                       calls |-> <<Call("iter", raw_prefix)>>]

storage_remove_subtree_committed(self, prefix) ==
    LET acc == self.account_id
        raw_prefix == get_raw_prefix_for_contract_data(acc, prefix)
        opened == map_err(TU_iter([self.trie_update EXCEPT !.prospective = [k \in {} |-> None]],
                                  raw_prefix), wrap_storage_error)
    IN  IF IsErr(opened)
        THEN [tu |-> self.trie_update, res |-> opened, calls |-> <<Call("iter", raw_prefix)>>]
        ELSE LET parsed == [i \in 1..Len(opened.val) |-> ParseItem(opened.val[i], acc)]
                 data_keys == map_err(Collect(parsed), wrap_storage_error)
             IN  IF IsErr(data_keys)
                 THEN [tu |-> self.trie_update, res |-> data_keys,
                       calls |-> <<Call("iter", raw_prefix)>>]
                 ELSE [tu |-> RemoveAll(self.trie_update, acc, data_keys.val),
                       res |-> Ok(Unit),
                       calls |-> <<Call("iter", raw_prefix)>>
                                   \o RemoveCalls(acc, data_keys.val)]

storage_remove_subtree_eager(self, prefix) ==
    LET acc == self.account_id
        raw_prefix == get_raw_prefix_for_contract_data(acc, prefix)
        opened == map_err(TU_iter(self.trie_update, raw_prefix), wrap_storage_error)
    IN  IF IsErr(opened)
        THEN [tu |-> self.trie_update, res |-> opened, calls |-> <<Call("iter", raw_prefix)>>]
        ELSE LET parsed == [i \in 1..Len(opened.val) |-> ParseItem(opened.val[i], acc)]
                 data_keys == map_err(Collect(parsed), wrap_storage_error)
                 done == OkPrefix(parsed)
             IN  [tu |-> RemoveAll(self.trie_update, acc, done),
                  res |-> IF IsErr(data_keys) THEN data_keys ELSE Ok(Unit),
                  calls |-> <<Call("iter", raw_prefix)>> \o RemoveCalls(acc, done)]

storage_remove_subtree(self, prefix) ==
    LET acc == self.account_id
        raw_prefix == get_raw_prefix_for_contract_data(acc, prefix)
        opened == map_err(TU_iter(self.trie_update, raw_prefix), wrap_storage_error)
    IN  IF IsErr(opened)
        THEN [tu |-> self.trie_update, res |-> opened, calls |-> <<Call("iter", raw_prefix)>>]
        ELSE LET parsed == [i \in 1..Len(opened.val) |-> ParseItem(opened.val[i], acc)]
                 data_keys == map_err(Collect(parsed), wrap_storage_error)
             IN  IF IsErr(data_keys)
                 THEN [tu |-> self.trie_update, res |-> data_keys,
                       calls |-> <<Call("iter", raw_prefix)>>]
                 ELSE [tu |-> RemoveAll(self.trie_update, acc, data_keys.val),
                       res |-> Ok(Unit),
                       calls |-> <<Call("iter", raw_prefix)>>
                                   \o RemoveCalls(acc, data_keys.val)]


generate_data_id_epoch(self) ==
    [data_id |-> create_data_id(self.current_protocol_version, self.action_hash,
                                self.prev_block_hash, self.epoch_id, self.data_count),
     data_count |-> self.data_count + 1]

generate_data_id_stuck(self) ==
    [data_id |-> create_data_id(self.current_protocol_version, self.action_hash,
                                self.prev_block_hash, self.last_block_hash, 0),
     data_count |-> self.data_count + 1]

generate_data_id_skip(self) ==
    [data_id |-> create_data_id(self.current_protocol_version, self.action_hash,
                                self.prev_block_hash, self.last_block_hash, self.data_count),
     data_count |-> self.data_count + 2]

generate_data_id(self) ==
    [data_id |-> create_data_id(self.current_protocol_version, self.action_hash,
                                self.prev_block_hash, self.last_block_hash, self.data_count),
     data_count |-> self.data_count + 1]

get_code_uncached(self, cache, code_hash) ==
    [cache |-> cache,
     res |-> store_get_code(self.trie_update, self.account_id, code_hash),
     computed |-> TRUE]

get_code_absent_fails(self, cache, code_hash) ==
    LET r == cache_get_code(cache, code_hash,
                            store_get_code(self.trie_update, self.account_id, code_hash))
    IN  IF r.computed /\ IsOk(r.res) /\ r.res.val = None
        THEN [r EXCEPT !.res = Err(StorageInconsistentState("No contract code"))]
        ELSE r

get_code(self, cache, code_hash) ==
    cache_get_code(cache, code_hash,
                   store_get_code(self.trie_update, self.account_id, code_hash))

validator_stake_last_block(self, acc) ==
    [tu |-> self.trie_update,
     res |-> map_err(provider_validator_stake(self.epoch_info_provider, self.epoch_id,
                                              self.last_block_hash, acc),
                     LAMBDA err : VMLogicErrorFrom(ExternalValidatorError(err))),
     calls |-> <<Call("validator_stake", <<self.epoch_id, self.last_block_hash, acc>>)>>]

validator_stake(self, acc) ==
    [tu |-> self.trie_update,
     res |-> map_err(provider_validator_stake(self.epoch_info_provider, self.epoch_id,
                                              self.prev_block_hash, acc),
                     LAMBDA err : VMLogicErrorFrom(ExternalValidatorError(err))),
     calls |-> <<Call("validator_stake", <<self.epoch_id, self.prev_block_hash, acc>>)>>]

validator_total_stake(self) ==
    [tu |-> self.trie_update,
     res |-> map_err(provider_validator_total_stake(self.epoch_info_provider, self.epoch_id,
                                                    self.prev_block_hash),
                     LAMBDA err : VMLogicErrorFrom(ExternalValidatorError(err))),
     calls |-> <<Call("validator_total_stake", <<self.epoch_id, self.prev_block_hash>>)>>]

set_trie_cache_mode_reset(self, state) ==
    [tu |-> [TU_set_trie_cache_mode(self.trie_update, state) EXCEPT !.prospective = [k \in {} |-> None]],
     res |-> Ok(Unit),
     calls |-> <<Call("set_trie_cache_mode", state)>>]

set_trie_cache_mode(self, state) ==
    [tu |-> TU_set_trie_cache_mode(self.trie_update, state),
     res |-> Ok(Unit),
     calls |-> <<Call("set_trie_cache_mode", state)>>]

\* the count is the trie's own metric: touched is what the trie answers
get_touched_nodes_count(self, touched) ==
    [tu |-> self.trie_update,
     res |-> Ok(touched),
     calls |-> <<Call("get_touched_nodes_count", <<>>)>>]

protocol_version_latest(self) == CREATE_HASH_PROTOCOL_VERSION

protocol_version(self) == self.current_protocol_version

account_id_of(self) == self.account_id

\* ----------------------------- actions -------------------------------------

\* ret.before is the view the call started from; ret.pre is the call before
\* it (kept for get_code only)
NoCall == [exec |-> 0, op |-> "", args |-> <<>>, res |-> Ok(Unit), calls |-> <<>>]

MkRet(e, op, args, r) ==
    [exec |-> e, op |-> op, args |-> args, res |-> r.res, calls |-> r.calls,
     before |-> trie_update[e], pre |-> NoCall]

ctx_vars == <<account_id, action_hash, epoch_id, prev_block_hash, last_block_hash,
              epoch_info_provider, current_protocol_version>>

\* the logical keys of the adapter's account that has_key reports present
PresentKeys(self) == {k \in Keys : storage_has_key(self, k).res = Ok(TRUE)}

\* RuntimeExt::new over the view the previous adapter of this execution used
New(e, acc, ctx, provider) ==
    /\ account_id' = [account_id EXCEPT ![e] = acc]
    /\ action_hash' = [action_hash EXCEPT ![e] = ctx.action_hash]
    /\ data_count' = [data_count EXCEPT ![e] = 0]
    /\ epoch_id' = [epoch_id EXCEPT ![e] = ctx.epoch_id]
    /\ prev_block_hash' = [prev_block_hash EXCEPT ![e] = ctx.prev_block_hash]
    /\ last_block_hash' = [last_block_hash EXCEPT ![e] = ctx.last_block_hash]
    /\ epoch_info_provider' = [epoch_info_provider EXCEPT ![e] = provider]
    /\ current_protocol_version' =
           [current_protocol_version EXCEPT ![e] = ctx.current_protocol_version]
    /\ generated' = [generated EXCEPT ![e] = <<>>]
    /\ ret' = MkRet(e, "new", <<acc>>, [res |-> Ok(Unit), calls |-> <<>>])
    /\ UNCHANGED <<trie_update, CODE>>

StorageSet(e, key, value) ==
    LET r == storage_set(Self(e), key, value)
    IN  /\ trie_update' = [trie_update EXCEPT ![e] = r.tu]
        /\ ret' = MkRet(e, "storage_set", <<key, value>>, r)
        /\ UNCHANGED <<ctx_vars, data_count, CODE, generated>>

StorageGet(e, key) ==
    LET r == storage_get(Self(e), key)
    IN  /\ trie_update' = [trie_update EXCEPT ![e] = r.tu]
        /\ ret' = MkRet(e, "storage_get", <<key>>, r)
        /\ UNCHANGED <<ctx_vars, data_count, CODE, generated>>

\* ValuePtr::deref on the handle the last storage_get returned
Deref(e) ==
    /\ ret.exec = e /\ ret.op = "storage_get"
    /\ IsOk(ret.res) /\ ret.res.val # None
    /\ ret' = MkRet(e, "deref", ret.args,
                    [res |-> ValuePtr_deref(Self(e), ret.res.val[1]),
                     calls |-> <<Call("deref_value", ret.res.val[1].inner.hash)>>])
    /\ UNCHANGED <<trie_update, ctx_vars, data_count, CODE, generated>>

StorageRemove(e, key) ==
    LET r == storage_remove(Self(e), key)
    IN  /\ trie_update' = [trie_update EXCEPT ![e] = r.tu]
        /\ ret' = MkRet(e, "storage_remove", <<key>>, r)
        /\ UNCHANGED <<ctx_vars, data_count, CODE, generated>>

StorageHasKey(e, key) ==
    LET r == storage_has_key(Self(e), key)
    IN  /\ trie_update' = [trie_update EXCEPT ![e] = r.tu]
        /\ ret' = MkRet(e, "storage_has_key", <<key>>, r)
        /\ UNCHANGED <<ctx_vars, data_count, CODE, generated>>

StorageRemoveSubtree(e, prefix) ==
    LET r == storage_remove_subtree(Self(e), prefix)
    IN  /\ trie_update' = [trie_update EXCEPT ![e] = r.tu]
        /\ ret' = MkRet(e, "storage_remove_subtree", <<prefix>>, r)
        /\ UNCHANGED <<ctx_vars, data_count, CODE, generated>>

GenerateDataId(e) ==
    /\ data_count[e] < MaxDataCount
    /\ LET r == generate_data_id(Self(e))
       IN  /\ data_count' = [data_count EXCEPT ![e] = r.data_count]
           /\ generated' = [generated EXCEPT ![e] = Append(@, r.data_id)]
           /\ ret' = MkRet(e, "generate_data_id", <<>>,
                           [res |-> Ok(r.data_id), calls |-> <<>>])
    /\ UNCHANGED <<trie_update, ctx_vars, CODE>>

GetCode(e, code_hash) ==
    LET r == get_code(Self(e), CODE, code_hash)
    IN  /\ CODE' = r.cache
        /\ ret' = [MkRet(e, "get_code", <<code_hash>>,
                         [res |-> r.res,
                          calls |-> IF r.computed
                                    THEN <<Call("near_store::get_code", account_id[e])>>
                                    ELSE <<>>])
                      EXCEPT !.pre = [exec |-> ret.exec, op |-> ret.op, args |-> ret.args,
                                      res |-> ret.res, calls |-> ret.calls]]
        /\ UNCHANGED <<trie_update, ctx_vars, data_count, generated>>

ValidatorStake(e, acc) ==
    /\ ret' = MkRet(e, "validator_stake", <<acc>>, validator_stake(Self(e), acc))
    /\ UNCHANGED <<trie_update, ctx_vars, data_count, CODE, generated>>

ValidatorTotalStake(e) ==
    /\ ret' = MkRet(e, "validator_total_stake", <<>>, validator_total_stake(Self(e)))
    /\ UNCHANGED <<trie_update, ctx_vars, data_count, CODE, generated>>

SetTrieCacheMode(e, state) ==
    LET r == set_trie_cache_mode(Self(e), state)
    IN  /\ trie_update' = [trie_update EXCEPT ![e] = r.tu]
        /\ ret' = MkRet(e, "set_trie_cache_mode", <<state>>, r)
        /\ UNCHANGED <<ctx_vars, data_count, CODE, generated>>

GetTouchedNodesCount(e, touched) ==
    /\ ret' = MkRet(e, "get_touched_nodes_count", <<>>,
                    get_touched_nodes_count(Self(e), touched))
    /\ UNCHANGED <<trie_update, ctx_vars, data_count, CODE, generated>>

ProtocolVersion(e) ==
    /\ ret' = MkRet(e, "protocol_version", <<>>,
                    [res |-> Ok(protocol_version(Self(e))), calls |-> <<>>])
    /\ UNCHANGED <<trie_update, ctx_vars, data_count, CODE, generated>>

AccountIdOf(e) ==
    /\ ret' = MkRet(e, "account_id", <<>>,
                    [res |-> Ok(account_id_of(Self(e))), calls |-> <<>>])
    /\ UNCHANGED <<trie_update, ctx_vars, data_count, CODE, generated>>

\* ----------------------------- initial states ------------------------------

MapOf(pairs) == [k \in {p[1] : p \in pairs} |-> (CHOOSE p \in pairs : p[1] = k)[2]]

CodeBytes == <<0, 97, 115, 109>>

TrieData ==
    MapOf({ <<to_vec(ContractData(Alice, <<44>>)), V1>>,
            <<to_vec(ContractData(Alice, <<97>>)), V1>>,
            <<to_vec(ContractData(Alice, <<97, 97>>)), V2>>,
            <<to_vec(ContractData(Alice2, <<97>>)), V2>>,
            <<to_vec(ContractCodeKey(Alice)), CodeBytes>> })

CommittedChanges ==
    MapOf({ <<to_vec(ContractData(Alice2, <<44>>)), Some(V1)>>,
            <<to_vec(ContractData(Alice2, <<97, 97>>)), None>> })

EmptyMap == MapOf({})

TrieUpdateOver(data, committed, fault) ==
    [trie |-> [data |-> data, fault |-> fault],
     committed |-> committed,
     prospective |-> EmptyMap,
     cache_mode |-> "CachingShard"]

Faults ==
    { NoFault, RootFault,
      NodeFault(to_vec(ContractData(Alice, <<97>>))),
      ValueFault(to_vec(ContractData(Alice, <<97>>))) }

FaultsStorage ==
    { NoFault, RootFault, NodeFault(to_vec(ContractData(Alice, <<97, 97>>))) }

Ctx(a, ep, p, l, v) ==
    [action_hash |-> a, epoch_id |-> ep, prev_block_hash |-> p,
     last_block_hash |-> l, current_protocol_version |-> v]

Contexts == { Ctx("h1", "e1", "h1", "h2", 38), Ctx("h2", "e2", "h2", "h1", 37) }

ContextsPair ==
    { Ctx("h1", "e1", "h1", "h2", 38), Ctx("h1", "e2", "h1", "h2", 38),
      Ctx("h1", "e1", "h1", "h1", 38), Ctx("h1", "e1", "h1", "h2", 37) }

Provider(ep, block, stake) == [epoch |-> ep, block |-> block, stake |-> stake]

Providers ==
    { Provider("e1", "h1", MapOf({<<Alice, 5>>})),
      Provider("e2", "h1", MapOf({<<Alice, 5>>, <<Alice2, 3>>})) }


InitWith(E, tus, ctxs, providers) ==
    /\ trie_update \in [E -> tus]
    /\ account_id \in [E -> Accounts]
    /\ \E c \in [E -> ctxs] :
          /\ action_hash = [e \in E |-> c[e].action_hash]
          /\ epoch_id = [e \in E |-> c[e].epoch_id]
          /\ prev_block_hash = [e \in E |-> c[e].prev_block_hash]
          /\ last_block_hash = [e \in E |-> c[e].last_block_hash]
          /\ current_protocol_version = [e \in E |-> c[e].current_protocol_version]
    /\ epoch_info_provider \in [E -> providers]
    /\ data_count = [e \in E |-> 0]
    /\ generated = [e \in E |-> <<>>]
    /\ CODE = EmptyMap
    /\ \E e \in E : ret = [exec |-> e, op |-> "new", args |-> <<account_id[e]>>,
                           res |-> Ok(Unit), calls |-> <<>>,
                           before |-> trie_update[e], pre |-> NoCall]

\* ----------------------------- specifications ------------------------------

\* one execution: every operation of the adapter, adapters created one after
\* another over the same view
Init ==
    InitWith({1}, {TrieUpdateOver(TrieData, CommittedChanges, f) : f \in Faults},
             Contexts, Providers)

Next ==
    \/ \E acc \in Accounts, ctx \in Contexts, p \in Providers : New(1, acc, ctx, p)
    \/ \E k \in KeysSmall, v \in ValuesSmall : StorageSet(1, k, v)
    \/ \E k \in KeysSmall : StorageGet(1, k)
    \/ Deref(1)
    \/ \E k \in KeysSmall : StorageRemove(1, k)
    \/ \E k \in KeysSmall : StorageHasKey(1, k)
    \/ \E p \in PrefixesSmall : StorageRemoveSubtree(1, p)
    \/ GenerateDataId(1)
    \/ \E h \in Hashes : GetCode(1, h)
    \/ \E acc \in Accounts : ValidatorStake(1, acc)
    \/ ValidatorTotalStake(1)
    \/ \E m \in TrieCacheModes : SetTrieCacheMode(1, m)
    \/ \E n \in TouchedCounts : GetTouchedNodesCount(1, n)
    \/ ProtocolVersion(1)
    \/ AccountIdOf(1)

Spec == Init /\ [][Next]_vars

\* one execution, the storage operations over the full key space
CtxStorage == Ctx("h1", "e1", "h1", "h2", 38)

InitStorage ==
    InitWith({1}, {TrieUpdateOver(TrieData, CommittedChanges, f) : f \in FaultsStorage},
             {CtxStorage}, {Provider("e1", "h1", MapOf({<<Alice, 5>>}))})

NextStorage ==
    \/ \E acc \in Accounts :
          New(1, acc, CtxStorage, Provider("e1", "h1", MapOf({<<Alice, 5>>})))
    \/ \E k \in Keys, v \in Values : StorageSet(1, k, v)
    \/ \E k \in Keys : StorageGet(1, k)
    \/ Deref(1)
    \/ \E k \in Keys : StorageRemove(1, k)
    \/ \E k \in Keys : StorageHasKey(1, k)
    \/ \E p \in Prefixes : StorageRemoveSubtree(1, p)

SpecStorage == InitStorage /\ [][NextStorage]_vars

\* two independent executions, each with its own view and context
InitPair ==
    /\ InitWith({1, 2},
                { TrieUpdateOver(TrieData, CommittedChanges, NoFault),
                  TrieUpdateOver(EmptyMap, EmptyMap, NoFault) },
                ContextsPair, Providers)
    /\ trie_update[1] # trie_update[2]
    /\ epoch_info_provider[1] # epoch_info_provider[2]

NextPair ==
    \E e \in {1, 2} :
        \/ \E k \in KeysSmall, v \in ValuesSmall : StorageSet(e, k, v)
        \/ \E k \in KeysSmall : StorageGet(e, k)
        \/ \E k \in KeysSmall : StorageRemove(e, k)
        \/ GenerateDataId(e)

SpecPair == InitPair /\ [][NextPair]_vars

\* two invocations, each with its own transactional view over the same
\* committed state; the adapter has no commit operation, so every state is one
\* before the host commits
Pristine == TrieUpdateOver(TrieData, CommittedChanges, NoFault)

KeysViews == {<<97>>, <<97, 97>>}

InitViews == InitWith({1, 2}, {Pristine}, {CtxStorage}, {Provider("e1", "h1", EmptyMap)})

NextViews ==
    \E e \in {1, 2} :
        \/ \E k \in KeysViews, v \in ValuesSmall : StorageSet(e, k, v)
        \/ \E k \in KeysViews : StorageGet(e, k)
        \/ \E k \in KeysViews : StorageRemove(e, k)
        \/ \E k \in KeysViews : StorageHasKey(e, k)
        \/ \E p \in {<<97>>} : StorageRemoveSubtree(e, p)

SpecViews == InitViews /\ [][NextViews]_vars

\* ----------------------------- properties ----------------------------------

\* the adapter of execution 1 rebound to account b over the same view
As(b) == [Self(1) EXCEPT !.account_id = b]

\* adapter self over the view the last call started from
Before(self) == [self EXCEPT !.trie_update = ret.before]

\* what the sandbox can learn about key k through adapter self
Observe(self, k) ==
    LET g == storage_get(self, k).res
    IN  [get |-> g,
         has |-> storage_has_key(self, k).res,
         deref |-> IF IsOk(g) /\ g.val # None
                   THEN ValuePtr_deref(self, g.val[1]) ELSE Ok(<<>>)]

\* C1: no call made by the adapter bound to one account changes what
\* storage_get, storage_has_key or a handle's deref return for any key of any
\* other account over the same view.
C1_AccountIsolation ==
    ret.op \in {"storage_set", "storage_remove", "storage_remove_subtree"} =>
        \A b \in Accounts \ {account_id[1]}, k \in Keys :
            Observe(As(b), k) = Observe(Before(As(b)), k)

C1_Witness ==
    /\ ret.op = "storage_set"
    /\ \E b \in Accounts \ {account_id[1]} :
          LET o == Observe(As(b), ret.args[1])
          IN  /\ IsOk(o.get) /\ o.get.val # None
              /\ IsOk(o.deref) /\ o.deref.val # ret.args[2]

\* C2: in the state storage_set(k, v) leaves, storage_get(k) returns a present
\* handle of length |v| whose deref is exactly v, whatever k held before.
C2_SetThenGet ==
    ret.op = "storage_set" =>
        LET o == Observe(Self(1), ret.args[1])
        IN  /\ ret.res = Ok(Unit)
            /\ IsOk(o.get) /\ o.get.val # None
            /\ ValuePtr_len(o.get.val[1]) = Len(ret.args[2])
            /\ o.deref = Ok(ret.args[2])
            /\ o.has = Ok(TRUE)

C2_Witness ==
    /\ ret.op = "storage_set"
    /\ LET pre == storage_get(Before(Self(1)), ret.args[1]).res
       IN  /\ IsOk(pre) /\ pre.val # None
           /\ pre.val[1].inner.kind = "MemoryRef"
           /\ pre.val[1].inner.value # ret.args[2]

\* C3: in the state storage_remove(k) leaves, storage_get(k) returns absent and
\* the call succeeded, whatever k held before; a second storage_remove(k)
\* applied to that state succeeds and leaves the view as it is.
C3_RemoveThenAbsent ==
    ret.op = "storage_remove" =>
        /\ ret.res = Ok(Unit)
        /\ storage_get(Self(1), ret.args[1]).res = Ok(None)
        /\ storage_has_key(Self(1), ret.args[1]).res = Ok(FALSE)
        /\ storage_remove(Self(1), ret.args[1]).tu = trie_update[1]
        /\ storage_remove(Self(1), ret.args[1]).res = Ok(Unit)

C3_Witness ==
    /\ ret.op = "storage_remove"
    /\ LET pre == storage_get(Before(Self(1)), ret.args[1]).res
       IN  /\ IsOk(pre) /\ pre.val # None
           /\ pre.val[1].inner.kind = "MemoryRef"
    /\ to_vec(create_storage_key(Self(1), ret.args[1])) \in DOMAIN TrieData

\* C4: a successful storage_remove_subtree(prefix) leaves has_key false for
\* every key of the account that was present and starts with prefix, and
\* leaves every key of the account that does not start with prefix as it was.
C4_SubtreeRemoved ==
    (ret.op = "storage_remove_subtree" /\ IsOk(ret.res)) =>
        \A k \in Keys :
            /\ (StartsWith(k, ret.args[1])
                   /\ storage_has_key(Before(Self(1)), k).res = Ok(TRUE))
               => storage_has_key(Self(1), k).res = Ok(FALSE)
            /\ ~StartsWith(k, ret.args[1])
               => Observe(Self(1), k) = Observe(Before(Self(1)), k)

C4_Witness ==
    /\ ret.op = "storage_remove_subtree" /\ IsOk(ret.res)
    /\ account_id[1] = Alice
    /\ ret.args[1] = <<97>>
    /\ PresentKeys(Before(Self(1))) = {<<44>>, <<97>>, <<97, 97>>}
    /\ PresentKeys(Self(1)) = {<<44>>}

\* C5: a failing storage_remove_subtree returns a wrapped storage
\* inconsistency error, leaves the view exactly as it was and has issued no
\* remove.
C5_SubtreeAtomic ==
    (ret.op = "storage_remove_subtree" /\ IsErr(ret.res)) =>
        /\ trie_update[1] = ret.before
        /\ ret.res.val = wrap_storage_error(ret.res.val.any.error)
        /\ ret.res.val.any.error.error = "StorageInconsistentState"
        /\ \A i \in 1..Len(ret.calls) : ret.calls[i].fn # "remove"

C5_Witness ==
    /\ ret.op = "storage_remove_subtree" /\ IsErr(ret.res)
    /\ \E k \in PresentKeys(Self(1)) : StartsWith(k, ret.args[1])
    /\ trie_update[1].trie.fault.kind = "node"
    /\ DOMAIN trie_update[1].prospective # {}

\* the inputs create_data_id is given besides the call index
Seeds(e) ==
    <<current_protocol_version[e], action_hash[e], prev_block_hash[e], last_block_hash[e]>>

\* C6: two independent executions with the same protocol version, action
\* hash, previous-block hash and last-block hash have returned the same
\* identifier at every call index both have reached, whatever their accounts,
\* epochs, views and providers are.
C6_Determinism ==
    Seeds(1) = Seeds(2) =>
        \A i \in 1..Len(generated[1]) :
            i <= Len(generated[2]) => generated[1][i] = generated[2][i]

C6_Witness ==
    /\ Seeds(1) = Seeds(2)
    /\ account_id[1] # account_id[2]
    /\ epoch_id[1] # epoch_id[2]
    /\ trie_update[1].trie # trie_update[2].trie
    /\ DOMAIN trie_update[1].prospective # {}
    /\ Len(generated[1]) >= 2 /\ Len(generated[2]) >= 2

\* C7: the identifiers one adapter has returned are pairwise different, and so
\* are the call indices they were composed from.
C7_UniqueIds ==
    \A i, j \in 1..Len(generated[1]) :
        i # j => /\ generated[1][i] # generated[1][j]
                 /\ generated[1][i][4] # generated[1][j][4]

C7_Witness ==
    /\ ret.op = "generate_data_id"
    /\ Len(generated[1]) >= 2

\* C8: the counter is 0 after RuntimeExt::new, equals the number of
\* generate_data_id calls the adapter has made, the n-th identifier was composed
\* with index n, and a step changes the counter only by a generate_data_id call
\* adding exactly 1.
C8_CounterInv ==
    /\ data_count[1] = Len(generated[1])
    /\ ret.op = "new" => data_count[1] = 0
    /\ \A i \in 1..Len(generated[1]) :
          generated[1][i] = create_data_id(current_protocol_version[1], action_hash[1],
                                           prev_block_hash[1], last_block_hash[1], i - 1)

C8_CounterStep ==
    /\ ret'.op = "generate_data_id" => data_count'[1] = data_count[1] + 1
    /\ ret'.op \notin {"generate_data_id", "new"} => data_count'[1] = data_count[1]

\* C8: the counter invariant holds in every state and every step changes the
\* counter only as generate_data_id does, by exactly 1.
C8_Counter == []C8_CounterInv /\ [][C8_CounterStep]_vars

C8_Witness ==
    /\ data_count[1] >= 2
    /\ ret.op = "storage_remove"

StorageOps ==
    {"storage_set", "storage_get", "storage_remove", "storage_has_key",
     "storage_remove_subtree", "deref"}

ValidatorOps == {"validator_stake", "validator_total_stake"}

\* C9: every failure of a sandbox-facing operation is VMLogicError::ExternalError
\* carrying a storage error (storage operations) or a validator error
\* (validator queries), and the failing call reached its collaborator once.
C9_ErrorOpacity ==
    (ret.op \in StorageOps \cup ValidatorOps /\ IsErr(ret.res)) =>
        /\ ret.res.val.kind = "ExternalError"
        /\ ret.op \in StorageOps => ret.res.val.any.variant = "StorageError"
        /\ ret.op \in ValidatorOps => ret.res.val.any.variant = "ValidatorError"
        /\ Len(ret.calls) = 1

C9_Witness ==
    /\ ret.op = "deref"
    /\ IsErr(ret.res)

\* C10: a get_code call that ran the storage read and found code, followed at
\* once by get_code with the same hash: the second call returns the same code
\* and does not run the storage read.
C10_MissThenHit ==
    (/\ ret.op = "get_code" /\ ret.pre.op = "get_code"
     /\ ret.pre.args = ret.args
     /\ ret.pre.calls # <<>>
     /\ IsOk(ret.pre.res) /\ ret.pre.res.val # None)
    => /\ ret.res = ret.pre.res
       /\ ret.calls = <<>>

C10_Witness ==
    /\ ret.op = "get_code" /\ ret.pre.op = "get_code"
    /\ ret.pre.args = ret.args
    /\ ret.pre.calls # <<>>
    /\ IsOk(ret.pre.res) /\ ret.pre.res.val # None
    /\ ret.res.val[1].code = CodeBytes

\* C11: validator_stake returns what the provider answers for (epoch id,
\* previous-block hash, account): Ok(None) for a non-validator, the balance for
\* a validator, a failure only when the provider fails; validator_total_stake
\* returns the provider's balance or its failure; each call is one provider
\* call with the adapter's epoch id and previous-block hash.
C11_ValidatorQueries ==
    /\ ret.op = "validator_stake" =>
          LET p == provider_validator_stake(epoch_info_provider[1], epoch_id[1],
                                            prev_block_hash[1], ret.args[1])
          IN  /\ IsErr(ret.res) <=> IsErr(p)
              /\ IsOk(p) => ret.res = p
              /\ (IsOk(p) /\ ret.args[1] \notin DOMAIN epoch_info_provider[1].stake)
                    => ret.res = Ok(None)
              /\ (IsOk(p) /\ ret.args[1] \in DOMAIN epoch_info_provider[1].stake)
                    => ret.res = Ok(Some(epoch_info_provider[1].stake[ret.args[1]]))
              /\ ret.calls = <<Call("validator_stake",
                                    <<epoch_id[1], prev_block_hash[1], ret.args[1]>>)>>
    /\ ret.op = "validator_total_stake" =>
          LET p == provider_validator_total_stake(epoch_info_provider[1], epoch_id[1],
                                                  prev_block_hash[1])
          IN  /\ IsErr(ret.res) <=> IsErr(p)
              /\ IsOk(p) => (ret.res = p /\ ret.res.val \in Nat)
              /\ ret.calls = <<Call("validator_total_stake",
                                    <<epoch_id[1], prev_block_hash[1]>>)>>

C11_Witness ==
    /\ ret.op = "validator_stake"
    /\ ret.res = Ok(None)
    /\ prev_block_hash[1] # last_block_hash[1]

\* the raw key is in no layer of the view, or the view marks it deleted
LegitimatelyAbsent(tu, raw_key) ==
    LET ov == Overlay(tu)
    IN  IF raw_key \in DOMAIN ov THEN ov[raw_key] = None
        ELSE raw_key \notin DOMAIN tu.trie.data /\ tu.trie.fault.kind = "none"

\* C12: in every state and for every key, storage_has_key is true exactly
\* when storage_get returns a handle, false exactly when it returns absent,
\* and fails exactly when it fails, with the same error; a legitimately absent
\* key gives Ok(None) and Ok(false).
C12_HasKeyIsGetPresence ==
    \A k \in Keys :
        LET g == storage_get(Self(1), k).res
            h == storage_has_key(Self(1), k).res
        IN  /\ IsOk(g) <=> IsOk(h)
            /\ IsOk(g) => h.val = (g.val # None)
            /\ IsErr(g) => h.val = g.val
            /\ LegitimatelyAbsent(trie_update[1], to_vec(create_storage_key(Self(1), k)))
                  => (IsOk(g) /\ g.val = None /\ IsOk(h) /\ h.val = FALSE)

C12_Witness ==
    /\ ret.op = "storage_has_key"
    /\ IsOk(ret.res) /\ ret.res.val = FALSE
    /\ to_vec(create_storage_key(Self(1), ret.args[1])) \in DOMAIN TrieData
    /\ \E k \in Keys : IsErr(storage_has_key(Self(1), k).res)

\* the view of execution o with its own buffer emptied
Unbuffered(o) == [trie_update[o] EXCEPT !.prospective = EmptyMap]

\* what execution o observes for key k depends on its own buffer only: a key
\* it has not written reads as in the committed state, and the layers below
\* the buffer are the ones the views were created over
C13_OwnBufferOnly ==
    \A o \in {1, 2} :
        /\ trie_update[o].trie = Pristine.trie
        /\ trie_update[o].committed = Pristine.committed
        /\ \A k \in Keys :
              to_vec(create_storage_key(Self(o), k)) \notin DOMAIN trie_update[o].prospective
                 => Observe(Self(o), k)
                      = Observe([Self(o) EXCEPT !.trie_update = Pristine], k)

\* a mutation is visible to the reads of the invocation that made it
C13_OwnWritesVisible ==
    LET e == ret.exec
    IN  /\ ret.op = "storage_set" =>
              LET o == Observe(Self(e), ret.args[1])
              IN  IsOk(o.get) /\ o.get.val # None /\ o.deref = Ok(ret.args[2])
        /\ ret.op = "storage_remove" =>
              LET g == storage_get(Self(e), ret.args[1]).res
              IN  IsOk(g) /\ g.val = None
        /\ (ret.op = "storage_remove_subtree" /\ IsOk(ret.res)) =>
              \A k \in Keys : StartsWith(k, ret.args[1]) =>
                  LET g == storage_get(Self(e), k).res
                  IN  IsOk(g) /\ g.val = None

\* a call of one invocation leaves the view of the other as it was
C13_OtherViewStep ==
    \A o \in {1, 2} : ret'.exec # o => trie_update'[o] = trie_update[o]

\* C13: a set, remove or subtree removal of one invocation is visible to the
\* later reads of that invocation and to no read of an invocation working on
\* its own view: under every interleaving each view reads its own buffer over
\* the unchanged committed state, and a call changes only its caller's view.
C13_BufferedMutations ==
    /\ [](C13_OwnBufferOnly /\ C13_OwnWritesVisible)
    /\ [][C13_OtherViewStep]_vars

C13_Witness ==
    /\ account_id[1] = account_id[2]
    /\ ret.exec = 2 /\ ret.op = "storage_get" /\ ret.args = << <<97>> >>
    /\ IsOk(ret.res) /\ ret.res.val # None
    /\ LET sk == to_vec(create_storage_key(Self(1), <<97>>))
       IN  /\ sk \in DOMAIN trie_update[1].prospective
           /\ trie_update[1].prospective[sk] = None
           /\ sk \notin DOMAIN trie_update[2].prospective

\* the raw keys whose buffered entry differs between two views
ChangedRawKeys(before, after) ==
    {rk \in DOMAIN after.prospective :
        rk \notin DOMAIN before.prospective
        \/ before.prospective[rk] # after.prospective[rk]}

\* the raw keys of the merged view that hold a value
LiveRawKeys(tu) ==
    {rk \in DOMAIN tu.trie.data \cup DOMAIN Overlay(tu) :
        IF rk \in DOMAIN Overlay(tu) THEN Overlay(tu)[rk] # None ELSE TRUE}

\* C14: storage_remove_subtree(prefix) of account A changes no key of another
\* account B, for every prefix (the empty one included) and also when A's id
\* is a proper prefix of B's (alice, alice2): every physical key it touches is
\* a contract-data key of A under the prefix, B's reads are as before, and with
\* the empty prefix no contract-data key of A is left while every other
\* physical key (A's code, B's data) is still there.
C14_SubtreeOwnAccountOnly ==
    ret.op = "storage_remove_subtree" =>
        LET A == account_id[1]
            own == get_raw_prefix_for_contract_data(A, ret.args[1])
        IN  /\ \A rk \in ChangedRawKeys(ret.before, trie_update[1]) :
                  StartsWith(rk, own) /\ trie_update[1].prospective[rk] = None
            /\ trie_update[1].trie = ret.before.trie
            /\ trie_update[1].committed = ret.before.committed
            /\ \A b \in Accounts \ {A}, k \in Keys :
                  Observe(As(b), k) = Observe(Before(As(b)), k)
            /\ (ret.args[1] = <<>> /\ IsOk(ret.res)) =>
                  /\ \A k \in Keys : storage_has_key(Self(1), k).res = Ok(FALSE)
                  /\ LiveRawKeys(trie_update[1])
                       = {rk \in LiveRawKeys(ret.before) :
                             ~StartsWith(rk, get_raw_prefix_for_contract_data(A, <<>>))}

C14_Witness ==
    /\ ret.op = "storage_remove_subtree" /\ ret.args[1] = <<>> /\ IsOk(ret.res)
    /\ account_id[1] = Alice
    /\ Len(ret.calls) > 3
    /\ \E k \in Keys : storage_has_key(As(Alice2), k).res = Ok(TRUE)
    /\ to_vec(ContractCodeKey(Alice)) \in LiveRawKeys(trie_update[1])

\* the buffered entry of logical key k in view tu: "set", "removed" or "none"
Buffered(tu, acc, k) ==
    LET rk == to_vec(ContractData(acc, k))
    IN  IF rk \notin DOMAIN tu.prospective THEN "none"
        ELSE IF tu.prospective[rk] = None THEN "removed" ELSE "set"

\* C15: storage_remove_subtree works on the invocation's current view: after
\* a successful call a key under the prefix that the invocation had set (and
\* not committed) is absent and was handed to remove; a key under the prefix
\* that the invocation had removed stays absent whatever the call returns and
\* is not handed to remove again; and the call fails only on a storage fault.
C15_SubtreeCurrentView ==
    ret.op = "storage_remove_subtree" =>
        LET A == account_id[1]
        IN  /\ \A k \in Keys : StartsWith(k, ret.args[1]) =>
                  LET g == storage_get(Self(1), k).res
                      rm == Call("remove", to_vec(ContractData(A, k)))
                      called == \E i \in 1..Len(ret.calls) : ret.calls[i] = rm
                  IN  /\ (Buffered(ret.before, A, k) = "set" /\ IsOk(ret.res))
                            => (IsOk(g) /\ g.val = None /\ called
                                /\ Buffered(trie_update[1], A, k) = "removed")
                      /\ Buffered(ret.before, A, k) = "removed"
                            => (IsOk(g) /\ g.val = None /\ ~called)
            /\ IsErr(ret.res) => ret.before.trie.fault.kind # "none"

C15_Witness ==
    /\ ret.op = "storage_remove_subtree" /\ IsOk(ret.res)
    /\ ret.before.trie.fault.kind = "none"
    /\ \E k \in Keys :
          /\ StartsWith(k, ret.args[1])
          /\ Buffered(ret.before, account_id[1], k) = "set"
          /\ to_vec(ContractData(account_id[1], k)) \notin DOMAIN TrieData
          /\ to_vec(ContractData(account_id[1], k)) \in DOMAIN CommittedChanges
    /\ \E k \in Keys :
          /\ StartsWith(k, ret.args[1])
          /\ Buffered(ret.before, account_id[1], k) = "removed"
          /\ to_vec(ContractData(account_id[1], k)) \in DOMAIN TrieData

\* protocol_version() answers the version field of the adapter
C16_VersionInv ==
    ret.op = "protocol_version" => ret.res = Ok(current_protocol_version[1])

\* a call on an existing adapter leaves the identity fields as constructed,
\* and only generate_data_id moves the counter
C16_ContextStep ==
    ret'.op # "new" =>
        /\ account_id' = account_id
        /\ action_hash' = action_hash
        /\ epoch_id' = epoch_id
        /\ prev_block_hash' = prev_block_hash
        /\ last_block_hash' = last_block_hash
        /\ current_protocol_version' = current_protocol_version
        /\ ret'.op # "generate_data_id" => data_count' = data_count
        /\ ret'.op = "generate_data_id" => data_count'[1] = data_count[1] + 1

\* C16: during an invocation no operation changes the account id, action
\* hash, epoch id, previous-block hash, last-block hash or protocol version,
\* protocol_version() returns the value given at construction, and the counter
\* is changed by generate_data_id only.
C16_ContextImmutable == []C16_VersionInv /\ [][C16_ContextStep]_vars

C16_Witness ==
    /\ ret.op = "protocol_version" /\ ret.res = Ok(37)
    /\ data_count[1] = MaxDataCount
    /\ DOMAIN trie_update[1].prospective # {}
    /\ DOMAIN CODE # {}
    /\ trie_update[1].cache_mode = "CachingChunk"

\* the operations that name no key to change
KeepingOps ==
    {"storage_get", "storage_has_key", "deref", "generate_data_id", "validator_stake",
     "validator_total_stake", "get_touched_nodes_count", "set_trie_cache_mode"}

\* C17: storage_set(k, v) and storage_remove(k) leave the presence and value
\* of every other key of the current account as they were; storage_get,
\* storage_has_key, generate_data_id, the validator queries,
\* get_touched_nodes_count and set_trie_cache_mode leave the presence and value
\* of every key as they were.
C17_Frame ==
    /\ ret.op \in {"storage_set", "storage_remove"} =>
          \A k \in Keys \ {ret.args[1]} :
              Observe(Self(1), k) = Observe(Before(Self(1)), k)
    /\ ret.op \in KeepingOps =>
          \A a \in Accounts, k \in Keys :
              Observe(As(a), k) = Observe(Before(As(a)), k)

C17_Witness ==
    /\ ret.op = "set_trie_cache_mode"
    /\ ret.before.cache_mode # trie_update[1].cache_mode
    /\ Buffered(trie_update[1], account_id[1], <<97>>) = "removed"
    /\ to_vec(ContractData(account_id[1], <<97>>)) \in DOMAIN TrieData
    /\ trie_update[1].trie.fault.kind = "none"

\* C18: storage_set and storage_remove return success for every key, value
\* and state, a faulty trie included, and when they return the view's buffer
\* holds the mutation they name: the value for set, a deletion for remove.
C18_MutationsNeverFail ==
    ret.op \in {"storage_set", "storage_remove"} =>
        LET rk == to_vec(create_storage_key(Self(1), ret.args[1]))
            must == IF ret.op = "storage_set" THEN Some(ret.args[2]) ELSE None
        IN  /\ IsOk(ret.res) /\ ret.res.val = Unit
            /\ rk \in DOMAIN trie_update[1].prospective
            /\ trie_update[1].prospective[rk] = must
            /\ trie_update[1].prospective = Put(ret.before.prospective, rk, must)

C18_Witness ==
    /\ ret.op = "storage_remove"
    /\ trie_update[1].trie.fault.kind = "root"
    /\ IsErr(storage_get(Before(Self(1)), ret.args[1]).res)
    /\ IsOk(storage_get(Self(1), ret.args[1]).res)

\* what near_store::get_code reads for the adapter's account before the call
CodeRead(h) == store_get_code(trie_update[1], account_id[1], h)

\* a failed read on a miss is returned as the storage-inconsistency error
C19_FailureStep ==
    ret'.op = "get_code" =>
        LET h == ret'.args[1]
        IN  (h \notin DOMAIN CODE /\ IsErr(CodeRead(h))) =>
                /\ IsErr(ret'.res) /\ ret'.res = CodeRead(h)
                /\ ret'.res.val.error = "StorageInconsistentState"
                /\ ret'.calls # <<>> /\ CODE' = CODE

\* a hash the cache holds is answered from the cache, storage not consulted
C19_HitStep ==
    ret'.op = "get_code" =>
        LET h == ret'.args[1]
        IN  h \in DOMAIN CODE =>
                /\ IsOk(ret'.res) /\ ret'.res.val = Some(CODE[h])
                /\ ret'.calls = <<>> /\ CODE' = CODE

\* the claim as stated: whenever storage holds no code for the account, the
\* answer is Ok(None), whatever the cache holds
C19_AbsentStepAsStated ==
    ret'.op = "get_code" =>
        LET h == ret'.args[1]
        IN  (IsOk(CodeRead(h)) /\ CodeRead(h).val = None) =>
                (IsOk(ret'.res) /\ ret'.res.val = None)

\* C19 as stated: get_code returns Ok(None) whenever no code is stored for
\* the account, the storage-inconsistency error when the storage read fails on
\* a cache miss, and succeeds without consulting storage when the cache holds
\* the hash.
C19_AsStated == [][C19_AbsentStepAsStated /\ C19_FailureStep /\ C19_HitStep]_vars

C19_AbsentOnMissStep ==
    ret'.op = "get_code" =>
        LET h == ret'.args[1]
        IN  (h \notin DOMAIN CODE /\ IsOk(CodeRead(h)) /\ CodeRead(h).val = None) =>
                /\ IsOk(ret'.res) /\ ret'.res.val = None
                /\ ret'.calls # <<>> /\ CODE' = CODE

\* C19 (amended): on a cache miss, get_code returns Ok(None) when storage
\* holds no code for the account and the storage-inconsistency error when the
\* storage read fails; when the cache already holds the hash it returns the
\* cached code without consulting storage, whatever storage holds for the
\* account.
C19_GetCodeOutcomes == [][C19_AbsentOnMissStep /\ C19_FailureStep /\ C19_HitStep]_vars

C19_Witness ==
    /\ ret.op = "get_code" /\ IsOk(ret.res) /\ ret.res.val = None
    /\ ret.calls # <<>>
    /\ account_id[1] = Alice2
    /\ DOMAIN CODE # {} /\ ret.args[1] \notin DOMAIN CODE

\* the case the statement misses: the account has no code, the cache holds
\* the hash, and the cached code is returned
C19_HitWithoutCode ==
    /\ ret.op = "get_code" /\ ret.calls = <<>>
    /\ IsOk(ret.res) /\ ret.res.val # None
    /\ IsOk(CodeRead(ret.args[1])) /\ CodeRead(ret.args[1]).val = None

====
